---- MODULE Spec2Model ----
(***************************************************************************)
(* oled_monitor.py: the OLEDManager display lifecycle (init_display,       *)
(* clear_screen, cleanup, check_and_reset, display_info, signal_handler)   *)
(* and the supervising loop of main(), as a machine of call frames.        *)
(*                                                                         *)
(* A frame is a label naming the source line the frame is executing; a     *)
(* frame that waits for a callee carries the line of the call.  One step   *)
(* executes the statement at the top frame's label together with the       *)
(* state-free control flow around it (tests, calls, returns).  A signal    *)
(* handler is a frame pushed on top of whatever was running, and a signal  *)
(* may be delivered between any two steps.                                 *)
(*                                                                         *)
(* Time is counted in units of half a second and is kept as the ages the   *)
(* code computes: reset_age = time.time() - last_reset_time and            *)
(* tick_age = time.time() - start_time.  Both saturate one unit above the  *)
(* interval they are compared with.  Time passes in time.sleep() and in    *)
(* the drawing block.                                                      *)
(*                                                                         *)
(* Four programs run this machine: Spec is main() under asynchronous       *)
(* signals, SpecAPI is a caller that constructs an OLEDManager and then    *)
(* calls its methods in any order, SpecDead is main() without signals and  *)
(* with a device that may fail for good, under the fairness of a running   *)
(* interpreter, and SpecCPU applies get_cpu_info to sensor files.          *)
(***************************************************************************)
EXTENDS Integers, Sequences, FiniteSets, TLC

VARIABLES
    stack,            \* call frames, bottom first; <<>> once the bottom frame ended
    ret,              \* value returned by the last call that returned one
    device,           \* OLEDManager.device
    config,           \* the display settings of OLEDManager.config
    reset_age,        \* time.time() - OLEDManager.last_reset_time
    tick_age,         \* time.time() - start_time of main's current tick
    sleep_left,       \* what remains of main's time.sleep(sleep_time)
    watchdog_counter, \* main's watchdog_counter
    handlers,         \* signals whose handler is OLEDManager.signal_handler
    exit_status,      \* -1 while the process runs, then its exit status
    obs,              \* what an observer of the run has recorded (see Observed)
    sensors,          \* the files at config['cpu_temp_path'] and config['cpu_freq_path']
    cpu_info          \* the last call of get_cpu_info and what it returned

vars == <<stack, ret, device, config, reset_age, tick_age, sleep_left,
          watchdog_counter, handlers, exit_status, obs, sensors, cpu_info>>

(* ---- bounds of the model ---- *)
MaxSignals == 2
ResetInterval == 2
RefreshInterval == 2
MaxDrawTime == 1

(* ---- constants of the program ---- *)
max_watchdog_errors == 10
SettleDelay == 1

Min(a, b) == IF a < b THEN a ELSE b
Max(a, b) == IF a > b THEN a ELSE b

\* The display settings a run may be configured with: the defaults, and a
\* configuration that differs from them in every setting.
Configs ==
    { [horizontal_mirror |-> 0, vertical_mirror |-> 1, y_offset |-> 0],
      [horizontal_mirror |-> 1, vertical_mirror |-> 0, y_offset |-> 2] }

\* A device handle: whether one is installed, whether its bus is open, and the
\* configuration commands it has received.
None == [present |-> FALSE, open |-> FALSE, cmds |-> <<>>]
NewDevice == [present |-> TRUE, open |-> TRUE, cmds |-> <<>>]

hor_cmd(c) == IF c.horizontal_mirror # 0 THEN 161 ELSE 160
ver_cmd(c) == IF c.vertical_mirror # 0 THEN 200 ELSE 192
ConfigCommands(c) == <<hor_cmd(c), ver_cmd(c), 211, c.y_offset>>

\* The observer's record at the start of a run.
Observed ==
    [ sigCount      |-> 0,       \* signals delivered so far
      why           |-> "none",  \* what first made the process leave its running state
      sigInSleep    |-> FALSE,   \* the first signal arrived during main's pending sleep
      cleanupCalls  |-> 0,       \* calls of cleanup() by main and by signal_handler
      liveAtCleanup |-> FALSE,   \* a handle was installed when the latest cleanup() began
      hides         |-> 0,       \* clear_screen attempts on a handle, latest cleanup()
      closes        |-> 0,       \* device.cleanup() attempts, latest cleanup()
      failRun       |-> 0,       \* main's display_info calls that returned False in a row
      diInits       |-> 0,       \* recovery init_display calls of the latest display_info
      orphaned      |-> FALSE,   \* a handle is open that self.device no longer refers to
      drew          |-> FALSE,   \* the latest display_info attempted the drawing
      opFailed      |-> FALSE,   \* a device operation has raised since the latest
                                 \* display_info began
      dead          |-> FALSE,   \* the device has failed for good
      deadTicks     |-> 0,       \* ticks main started since then
      \* recorded for the caller of SpecAPI only:
      lastCall      |-> "none",  \* what the caller did last
      lastDue       |-> FALSE,   \* its last check_and_reset() found the reset due
      sinceReset    |-> ResetInterval + 1, \* time since check_and_reset last started a reset
      lastResetOk   |-> FALSE,   \* the init_display() of that reset succeeded
      earlyReset    |-> "no" ]   \* the latest reset was started within reset_interval of
                                 \* the one before, which had "failed" or "succeeded"

Running == exit_status = -1
Top == stack[Len(stack)]
Pop(stk) == SubSeq(stk, 1, Len(stk) - 1)
SetTop(stk, l) == [stk EXCEPT ![Len(stk)] = l]
At(l) == Running /\ stack # <<>> /\ Top = l
InStack(l) == \E i \in 1..Len(stack) : stack[i] = l
UnderCleanup == Len(stack) >= 2 /\ stack[Len(stack) - 1] = "cleanup_267"
UnderReset == Len(stack) >= 2 /\ stack[Len(stack) - 1] = "car_283"

(* ---- control flow ---- *)

\* The label at which a caller resumes when the call made at `site` returns.
After(site) ==
    CASE site = "init_216" -> "init_217"
      [] site = "cleanup_267" -> "cleanup_271"
      [] site = "sig_259" -> "sig_262"
      [] site = "car_283" -> "car_283r"
      [] site = "di_288" -> "di_288r"
      [] site = "di_290" -> "di_290r"
      [] site = "di_317" -> "di_318"
      [] site = "ctor_204" -> "ctor_207"
      [] site = "main_401" -> "main_404"
      [] site = "main_425" -> "main_426"
      [] site = "main_450" -> "main_453"
      [] site = "api_call" -> "api_idle"
      [] OTHER -> "none"

\* Handler with the try block of display_info's drawing missing.
HandlerDrawUncaught(l) ==
    CASE l \in {"clear_250", "clear_251"} -> "return"
      [] l \in {"init_216", "init_217"} -> "init_220"
      [] l \in {"init_220", "init_222", "init_223", "init_229", "init_230",
                "init_233", "init_234"} -> "init_242"
      [] l = "cleanup_267" -> "cleanup_271"
      [] l = "cleanup_271" -> "cleanup_276"
      [] l \in {"main_422", "main_425", "main_426", "main_439"} -> "main_444"
      [] l = "main_450" -> "main_452"
      [] OTHER -> "none"

\* The except clause that catches an Exception raised (or passed on by a callee)
\* at label l: the label where execution goes on, "return" when the clause only
\* logs and the function then ends, "none" when l is in no try block.
Handler(l) ==
    CASE l \in {"clear_250", "clear_251"} -> "return"
      [] l \in {"init_216", "init_217"} -> "init_220"
      [] l \in {"init_220", "init_222", "init_223", "init_229", "init_230",
                "init_233", "init_234"} -> "init_242"
      [] l = "cleanup_267" -> "cleanup_271"
      [] l = "cleanup_271" -> "cleanup_276"
      [] l = "di_294" -> "di_315"
      [] l \in {"main_422", "main_425", "main_426", "main_439"} -> "main_444"
      [] l = "main_450" -> "main_452"
      [] OTHER -> "none"

\* The stack after the top frame returns.
Ret(stk) ==
    IF Len(stk) <= 1 THEN <<>>
    ELSE SetTop(Pop(stk), After(stk[Len(stk) - 1]))

\* The stack after an Exception is raised in the top frame: frames are dropped
\* until one is in a try block with a matching except clause.
RECURSIVE Unwind(_)
Unwind(stk) ==
    IF stk = <<>> THEN <<>>
    ELSE LET h == Handler(stk[Len(stk)])
         IN  IF h = "none" THEN Unwind(Pop(stk))
             ELSE IF h = "return" THEN Ret(stk)
             ELSE SetTop(stk, h)

\* clear_screen() called by the top frame of stk: with no device it returns at once.
EnterClear(stk, dev) ==
    IF dev.present THEN Append(stk, "clear_250")
    ELSE SetTop(stk, After(stk[Len(stk)]))

\* cleanup() called by the top frame of stk: its first statement calls clear_screen().
EnterCleanup(stk, dev) == EnterClear(Append(stk, "cleanup_267"), dev)

\* init_display() called by the top frame of stk.
EnterInit(stk, dev) ==
    IF dev.present THEN EnterClear(Append(stk, "init_216"), dev)
    ELSE Append(stk, "init_222")

\* ResetDue with the comparison off by one (>= for >).
ResetDueEarly(age) == age >= ResetInterval

\* check_and_reset(): whether the periodic reset is due.
ResetDue(age) == age > ResetInterval

\* display_info() called by the top frame of stk.
EnterDisplayInfo(stk, dev, age) ==
    IF ~dev.present THEN EnterInit(Append(stk, "di_290"), dev)
    ELSE IF ResetDue(age) THEN EnterInit(Append(Append(stk, "di_288"), "car_283"), dev)
    ELSE Append(stk, "di_294")

\* The step goes on at stack s, the observer's record becoming o.
Goes(s, o) ==
    /\ stack' = s
    /\ obs' = o
    /\ UNCHANGED exit_status

\* The top frame raises an Exception of the given kind. An Exception that no
\* frame catches ends the process with status 1.
Raise(kind, o) ==
    LET s == Unwind(stack)
    IN  /\ stack' = s
        /\ exit_status' = IF s = <<>> THEN 1 ELSE exit_status
        /\ obs' = [o EXCEPT !.why = IF @ = "none" /\ Len(s) <= 1 THEN kind ELSE @,
                            !.opFailed = @ \/ kind = "device"]

\* Time passes by d units.
Advance(d) ==
    /\ reset_age' = Min(reset_age + d, ResetInterval + 1)
    /\ tick_age' = Min(tick_age + d, RefreshInterval + 1)

InApi == stack # <<>> /\ stack[1] \in {"api_new", "api_call", "api_idle"}
ByMain == Len(stack) >= 2 /\ stack[Len(stack) - 1] = "main_425"

\* The observer's record after d units of time.
Aged(o, d) ==
    IF InApi THEN [o EXCEPT !.sinceReset = Min(@ + d, ResetInterval + 1)] ELSE o

\* The observer's record when cleanup() is entered.
CleanupBegins(o, dev) ==
    [o EXCEPT !.cleanupCalls = IF InApi THEN @ ELSE @ + 1,
              !.liveAtCleanup = dev.present,
              !.hides = 0,
              !.closes = 0]

\* The observer's record when check_and_reset() starts a reset.
ResetBegins(o) ==
    IF InApi
    THEN [o EXCEPT !.sinceReset = 0,
                   !.lastResetOk = FALSE,
                   !.earlyReset = IF o.sinceReset > ResetInterval THEN "no"
                                  ELSE IF o.lastResetOk THEN "succeeded"
                                  ELSE "failed"]
    ELSE o

\* The observer's record when the init_display() of a reset returns True.
ResetSucceeds(o) ==
    IF InApi /\ UnderReset THEN [o EXCEPT !.lastResetOk = TRUE] ELSE o

\* The observer's record when display_info() is entered.
DisplayBegins(o, dev, age) ==
    [(IF dev.present /\ ResetDue(age) THEN ResetBegins(o) ELSE o) EXCEPT
        !.diInits = IF dev.present THEN 0 ELSE 1,
        !.drew = FALSE,
        !.opFailed = FALSE]

\* The observer's record when display_info() returns.
DisplayEnds(o, value) ==
    IF ByMain
    THEN [o EXCEPT !.failRun = IF value THEN 0 ELSE Min(@ + 1, max_watchdog_errors + 1)]
    ELSE o

\* The observer's record when main starts a tick.
Ticked(o) ==
    IF o.dead THEN [o EXCEPT !.deadTicks = Min(@ + 1, max_watchdog_errors + 1)] ELSE o

\* What an open, configure or draw operation may do: succeed (TRUE) or raise
\* (FALSE); once the device has failed for good it raises.
Outcomes == IF obs.dead THEN {FALSE} ELSE BOOLEAN

\* The observer's record when self.device stops referring to the handle dev.
Dropped(o, dev) ==
    IF dev.present /\ dev.open THEN [o EXCEPT !.orphaned = TRUE] ELSE o

(* ---- OLEDManager.clear_screen (after its test of self.device) ---- *)

\* self.device.hide()
ClearHide ==
    /\ At("clear_250")
    /\ LET o == IF UnderCleanup
                THEN [obs EXCEPT !.hides = @ + 1]
                ELSE obs
       IN  \E ok \in BOOLEAN :
             IF ok THEN Goes(SetTop(stack, "clear_251"), o) ELSE Raise("device", o)
    /\ UNCHANGED <<ret, device, config, reset_age, tick_age, sleep_left,
                   watchdog_counter, handlers>>
    /\ UNCHANGED <<sensors, cpu_info>>

\* self.device.clear(), then the function ends
ClearClear ==
    /\ At("clear_251")
    /\ \E ok \in BOOLEAN :
         IF ok THEN Goes(Ret(stack), obs) ELSE Raise("device", obs)
    /\ UNCHANGED <<ret, device, config, reset_age, tick_age, sleep_left,
                   watchdog_counter, handlers>>
    /\ UNCHANGED <<sensors, cpu_info>>

(* ---- OLEDManager.init_display ---- *)

\* the old handle's self.device.cleanup(): a close that fails leaves it open
InitClose ==
    /\ At("init_217")
    /\ \E ok \in BOOLEAN :
         IF ok
         THEN /\ device' = [device EXCEPT !.open = FALSE]
              /\ Goes(SetTop(stack, "init_220"), obs)
         ELSE /\ device' = device
              /\ Raise("device", obs)
    /\ UNCHANGED <<ret, config, reset_age, tick_age, sleep_left,
                   watchdog_counter, handlers>>
    /\ UNCHANGED <<sensors, cpu_info>>

\* time.sleep(0.5)
InitSettle ==
    /\ At("init_220")
    /\ Advance(SettleDelay)
    /\ Goes(SetTop(stack, "init_222"), Aged(obs, SettleDelay))
    /\ UNCHANGED <<ret, device, config, sleep_left, watchdog_counter, handlers>>
    /\ UNCHANGED <<sensors, cpu_info>>

\* serial = i2c(port, address)
InitOpen ==
    /\ At("init_222")
    /\ \E ok \in Outcomes :
         IF ok THEN Goes(SetTop(stack, "init_223"), obs) ELSE Raise("device", obs)
    /\ UNCHANGED <<ret, device, config, reset_age, tick_age, sleep_left,
                   watchdog_counter, handlers>>
    /\ UNCHANGED <<sensors, cpu_info>>

\* self.device = ssd1306(serial, width=128, height=64)
InitConstruct ==
    /\ At("init_223")
    /\ \E ok \in Outcomes :
         IF ok
         THEN /\ device' = NewDevice
              /\ Goes(SetTop(stack, "init_229"), Dropped(obs, device))
         ELSE /\ device' = device
              /\ Raise("device", obs)
    /\ UNCHANGED <<ret, config, reset_age, tick_age, sleep_left,
                   watchdog_counter, handlers>>
    /\ UNCHANGED <<sensors, cpu_info>>

\* The command each configuration line sends, and the line that follows it.
CommandAt(l, c) ==
    CASE l = "init_229" -> hor_cmd(c)
      [] l = "init_230" -> ver_cmd(c)
      [] l = "init_233" -> 211
      [] l = "init_234" -> c.y_offset

NextCommand(l) ==
    CASE l = "init_229" -> "init_230"
      [] l = "init_230" -> "init_233"
      [] l = "init_233" -> "init_234"
      [] l = "init_234" -> "init_236"

\* self.device.command(...), four times; after the last one
\* self.last_reset_time = time.time() and return True
InitCommand ==
    /\ Running /\ stack # <<>>
    /\ Top \in {"init_229", "init_230", "init_233", "init_234"}
    /\ \E ok \in Outcomes :
         IF ok
         THEN /\ device' = [device EXCEPT !.cmds = Append(@, CommandAt(Top, config))]
              /\ IF NextCommand(Top) = "init_236"
                 THEN /\ reset_age' = 0
                      /\ ret' = TRUE
                      /\ Goes(Ret(stack), ResetSucceeds(obs))
                 ELSE /\ Goes(SetTop(stack, NextCommand(Top)), obs)
                      /\ UNCHANGED <<reset_age, ret>>
         ELSE /\ Raise("device", obs)
              /\ UNCHANGED <<device, reset_age, ret>>
    /\ UNCHANGED <<config, tick_age, sleep_left, watchdog_counter, handlers>>
    /\ UNCHANGED <<sensors, cpu_info>>

\* InitFail without self.device = None.
InitFailKeepsDevice ==
    /\ At("init_242")
    /\ ret' = FALSE
    /\ Goes(Ret(stack), obs)
    /\ UNCHANGED <<device, config, reset_age, tick_age, sleep_left,
                   watchdog_counter, handlers>>
    /\ UNCHANGED <<sensors, cpu_info>>

\* InitFail with self.last_reset_time = time.time() added.
InitFailRefreshes ==
    /\ At("init_242")
    /\ device' = None
    /\ ret' = FALSE
    /\ reset_age' = 0
    /\ Goes(Ret(stack), Dropped(obs, device))
    /\ UNCHANGED <<config, tick_age, sleep_left, watchdog_counter, handlers>>
    /\ UNCHANGED <<sensors, cpu_info>>

\* except Exception: self.device = None; return False
InitFail ==
    /\ At("init_242")
    /\ device' = None
    /\ ret' = FALSE
    /\ Goes(Ret(stack), Dropped(obs, device))
    /\ UNCHANGED <<config, reset_age, tick_age, sleep_left, watchdog_counter,
                   handlers>>
    /\ UNCHANGED <<sensors, cpu_info>>

(* ---- OLEDManager.cleanup ---- *)

\* if self.device: self.device.cleanup()
CleanupClose ==
    /\ At("cleanup_271")
    /\ IF device.present
       THEN LET o == [obs EXCEPT !.closes = @ + 1]
            IN  \E ok \in BOOLEAN :
                  IF ok
                  THEN /\ device' = [device EXCEPT !.open = FALSE]
                       /\ Goes(SetTop(stack, "cleanup_276"), o)
                  ELSE /\ device' = device
                       /\ Raise("device", o)
       ELSE /\ Goes(Ret(stack), obs)
            /\ UNCHANGED device
    /\ UNCHANGED <<ret, config, reset_age, tick_age, sleep_left,
                   watchdog_counter, handlers>>
    /\ UNCHANGED <<sensors, cpu_info>>

\* CleanupRelease without self.device = None.
CleanupReleaseKeeps ==
    /\ At("cleanup_276")
    /\ Goes(Ret(stack), obs)
    /\ UNCHANGED <<ret, device, config, reset_age, tick_age, sleep_left,
                   watchdog_counter, handlers>>
    /\ UNCHANGED <<sensors, cpu_info>>

\* self.device = None
CleanupRelease ==
    /\ At("cleanup_276")
    /\ device' = None
    /\ Goes(Ret(stack), Dropped(obs, device))
    /\ UNCHANGED <<ret, config, reset_age, tick_age, sleep_left,
                   watchdog_counter, handlers>>
    /\ UNCHANGED <<sensors, cpu_info>>

(* ---- OLEDManager.signal_handler ---- *)

\* os._exit(0): the process ends where it stands
SigExit ==
    /\ At("sig_262")
    /\ exit_status' = 0
    /\ UNCHANGED <<stack, ret, device, config, reset_age, tick_age, sleep_left,
                   watchdog_counter, handlers, obs>>
    /\ UNCHANGED <<sensors, cpu_info>>

\* Signal with a signal_handler that exits without calling cleanup().
SignalNoCleanup(sig) ==
    /\ Running /\ stack # <<>>
    /\ obs.sigCount < MaxSignals
    /\ LET o == [obs EXCEPT !.sigCount = @ + 1]
       IN  IF sig \in handlers
           THEN Goes(Append(stack, "sig_262"),
                     [o EXCEPT !.why = IF @ = "none" THEN "signal" ELSE @,
                               !.sigInSleep = IF obs.sigCount = 0
                                               THEN Top = "main_439" /\ sleep_left > 0
                                               ELSE @])
           ELSE /\ exit_status' = 1
                /\ obs' = [o EXCEPT !.why = IF @ = "none" THEN "killed" ELSE @]
                /\ UNCHANGED stack
    /\ UNCHANGED <<ret, device, config, reset_age, tick_age, sleep_left,
                   watchdog_counter, handlers>>
    /\ UNCHANGED <<sensors, cpu_info>>

\* A SIGINT or SIGTERM is delivered between two steps. With signal_handler
\* installed it runs on top of the interrupted frames and calls cleanup();
\* before that the signal's default action ends the process at once.
Signal(sig) ==
    /\ Running /\ stack # <<>>
    /\ obs.sigCount < MaxSignals
    /\ LET o == [obs EXCEPT !.sigCount = @ + 1]
       IN  IF sig \in handlers
           THEN Goes(EnterCleanup(Append(stack, "sig_259"), device),
                     [CleanupBegins(o, device) EXCEPT
                        !.why = IF @ = "none" THEN "signal" ELSE @,
                        !.sigInSleep = IF obs.sigCount = 0
                                        THEN Top = "main_439" /\ sleep_left > 0
                                        ELSE @])
           ELSE /\ exit_status' = 1
                /\ obs' = [o EXCEPT !.why = IF @ = "none" THEN "killed" ELSE @]
                /\ UNCHANGED stack
    /\ UNCHANGED <<ret, device, config, reset_age, tick_age, sleep_left,
                   watchdog_counter, handlers>>
    /\ UNCHANGED <<sensors, cpu_info>>

(* ---- OLEDManager.check_and_reset ---- *)

\* return self.init_display(): the reset's outcome is handed to the caller
CheckReturn ==
    /\ At("car_283r")
    /\ Goes(Ret(stack), obs)
    /\ UNCHANGED <<ret, device, config, reset_age, tick_age, sleep_left,
                   watchdog_counter, handlers>>
    /\ UNCHANGED <<sensors, cpu_info>>

(* ---- OLEDManager.display_info ---- *)

\* check_and_reset() has returned: on False, init_display() is tried again
DisplayAfterCheck ==
    /\ At("di_288r")
    /\ IF ret
       THEN Goes(SetTop(stack, "di_294"), obs)
       ELSE Goes(EnterInit(SetTop(stack, "di_290"), device),
                 [obs EXCEPT !.diInits = @ + 1])
    /\ UNCHANGED <<ret, device, config, reset_age, tick_age, sleep_left,
                   watchdog_counter, handlers>>
    /\ UNCHANGED <<sensors, cpu_info>>

\* DisplayAfterInit going on to the drawing whatever init_display() returned.
DisplayAfterInitDraws ==
    /\ At("di_290r")
    /\ Goes(SetTop(stack, "di_294"), obs)
    /\ UNCHANGED <<ret, device, config, reset_age, tick_age, sleep_left,
                   watchdog_counter, handlers>>
    /\ UNCHANGED <<sensors, cpu_info>>

\* DisplayAfterInit returning False whatever init_display() returned.
DisplayAfterInitGivesUp ==
    /\ At("di_290r")
    /\ ret' = FALSE
    /\ Goes(Ret(stack), DisplayEnds(obs, FALSE))
    /\ UNCHANGED <<device, config, reset_age, tick_age, sleep_left,
                   watchdog_counter, handlers>>
    /\ UNCHANGED <<sensors, cpu_info>>

\* if not self.init_display(): return False
DisplayAfterInit ==
    /\ At("di_290r")
    /\ IF ret
       THEN Goes(SetTop(stack, "di_294"), obs)
       ELSE Goes(Ret(stack), DisplayEnds(obs, FALSE))
    /\ UNCHANGED <<ret, device, config, reset_age, tick_age, sleep_left,
                   watchdog_counter, handlers>>
    /\ UNCHANGED <<sensors, cpu_info>>

\* with canvas(self.device) as draw: ...; return True
DisplayDraw ==
    /\ At("di_294")
    /\ \E d \in 0..MaxDrawTime :
         /\ Advance(d)
         /\ \E ok \in Outcomes :
              /\ ok => device.present
              /\ IF ok
                 THEN /\ ret' = TRUE
                      /\ Goes(Ret(stack),
                              DisplayEnds([Aged(obs, d) EXCEPT !.drew = TRUE], TRUE))
                 ELSE /\ Raise("device", [Aged(obs, d) EXCEPT !.drew = TRUE])
                      /\ UNCHANGED ret
    /\ UNCHANGED <<device, config, sleep_left, watchdog_counter, handlers>>
    /\ UNCHANGED <<sensors, cpu_info>>

\* DisplayRecover without the recovery call of init_display().
DisplayRecoverSkips ==
    /\ At("di_315")
    /\ Goes(SetTop(stack, "di_318"), obs)
    /\ UNCHANGED <<ret, device, config, reset_age, tick_age, sleep_left,
                   watchdog_counter, handlers>>
    /\ UNCHANGED <<sensors, cpu_info>>

\* except Exception: self.init_display()
DisplayRecover ==
    /\ At("di_315")
    /\ Goes(EnterInit(SetTop(stack, "di_317"), device),
            [obs EXCEPT !.diInits = @ + 1])
    /\ UNCHANGED <<ret, device, config, reset_age, tick_age, sleep_left,
                   watchdog_counter, handlers>>
    /\ UNCHANGED <<sensors, cpu_info>>

\* DisplayFail returning what the recovery init_display() returned.
DisplayFailReportsRecovery ==
    /\ At("di_318")
    /\ Goes(Ret(stack), DisplayEnds(obs, ret))
    /\ UNCHANGED <<ret, device, config, reset_age, tick_age, sleep_left,
                   watchdog_counter, handlers>>
    /\ UNCHANGED <<sensors, cpu_info>>

\* return False, whatever the recovery's outcome
DisplayFail ==
    /\ At("di_318")
    /\ ret' = FALSE
    /\ Goes(Ret(stack), DisplayEnds(obs, FALSE))
    /\ UNCHANGED <<device, config, reset_age, tick_age, sleep_left,
                   watchdog_counter, handlers>>
    /\ UNCHANGED <<sensors, cpu_info>>

(* ---- main ---- *)

\* the network interface check: exit(1) when the host has no interface at all
MainCheckInterface ==
    /\ At("main_388")
    /\ \E anyInterface \in BOOLEAN :
         IF anyInterface
         THEN Goes(SetTop(stack, "main_401"), obs)
         ELSE /\ stack' = <<>>
              /\ exit_status' = 1
              /\ obs' = [obs EXCEPT !.why = "startup"]
    /\ UNCHANGED <<ret, device, config, reset_age, tick_age, sleep_left,
                   watchdog_counter, handlers>>
    /\ UNCHANGED <<sensors, cpu_info>>

\* OLEDManager(config): self.device = None, last_reset_time = now, init_display()
MainConstruct ==
    /\ At("main_401")
    /\ device' = None
    /\ reset_age' = 0
    /\ Goes(EnterInit(Append(stack, "ctor_204"), None), obs)
    /\ UNCHANGED <<ret, config, tick_age, sleep_left, watchdog_counter, handlers>>
    /\ UNCHANGED <<sensors, cpu_info>>

\* signal.signal(signal.SIGINT, self.signal_handler)
CtorInstallSigint ==
    /\ At("ctor_207")
    /\ handlers' = handlers \cup {"SIGINT"}
    /\ Goes(SetTop(stack, "ctor_208"), obs)
    /\ UNCHANGED <<ret, device, config, reset_age, tick_age, sleep_left,
                   watchdog_counter>>
    /\ UNCHANGED <<sensors, cpu_info>>

\* signal.signal(signal.SIGTERM, self.signal_handler); the constructor returns
CtorInstallSigterm ==
    /\ At("ctor_208")
    /\ handlers' = handlers \cup {"SIGTERM"}
    /\ Goes(Ret(stack), obs)
    /\ UNCHANGED <<ret, device, config, reset_age, tick_age, sleep_left,
                   watchdog_counter>>
    /\ UNCHANGED <<sensors, cpu_info>>

\* the fonts are loaded; watchdog_counter = 0
MainLoadFonts ==
    /\ At("main_404")
    /\ watchdog_counter' = 0
    /\ Goes(SetTop(stack, "main_422"), obs)
    /\ UNCHANGED <<ret, device, config, reset_age, tick_age, sleep_left, handlers>>
    /\ UNCHANGED <<sensors, cpu_info>>

\* start_time = time.time(); oled_manager.display_info(font, font_zh)
MainTick ==
    /\ At("main_422")
    /\ tick_age' = 0
    /\ Goes(EnterDisplayInfo(SetTop(stack, "main_425"), device, reset_age),
            Ticked(DisplayBegins(obs, device, reset_age)))
    /\ UNCHANGED <<ret, device, config, reset_age, sleep_left, watchdog_counter,
                   handlers>>
    /\ UNCHANGED <<sensors, cpu_info>>

\* SleepTime without the clamp at 0.
SleepTimeUnclamped(elapsed) == RefreshInterval - elapsed

\* sleep_time = max(0, config['refresh_interval'] - elapsed)
SleepTime(elapsed) == Max(0, RefreshInterval - elapsed)

\* WatchdogExhausted with the comparison off by one (> for >=).
WatchdogExhaustedLate(n) == n > max_watchdog_errors

\* Whether the watchdog gives up at this count of failures.
WatchdogExhausted(n) == n >= max_watchdog_errors

\* MainAfterDisplay without watchdog_counter = 0 on success.
MainAfterDisplayNoReset ==
    /\ At("main_426")
    /\ IF ~ret
       THEN /\ watchdog_counter' = watchdog_counter + 1
            /\ IF WatchdogExhausted(watchdog_counter + 1)
               THEN /\ Raise("watchdog", obs)
                    /\ UNCHANGED sleep_left
               ELSE /\ Goes(SetTop(stack, "main_439"), obs)
                    /\ sleep_left' = SleepTime(tick_age)
       ELSE /\ watchdog_counter' = watchdog_counter
            /\ Goes(SetTop(stack, "main_439"), obs)
            /\ sleep_left' = SleepTime(tick_age)
    /\ UNCHANGED <<ret, device, config, reset_age, tick_age, handlers>>
    /\ UNCHANGED <<sensors, cpu_info>>

\* MainAfterDisplay with the watchdog only logging at the threshold (no raise).
MainAfterDisplayLogsOnly ==
    /\ At("main_426")
    /\ IF ~ret
       THEN /\ watchdog_counter' = Min(watchdog_counter + 1, max_watchdog_errors)
            /\ Goes(SetTop(stack, "main_439"), obs)
            /\ sleep_left' = SleepTime(tick_age)
       ELSE /\ watchdog_counter' = 0
            /\ Goes(SetTop(stack, "main_439"), obs)
            /\ sleep_left' = SleepTime(tick_age)
    /\ UNCHANGED <<ret, device, config, reset_age, tick_age, handlers>>
    /\ UNCHANGED <<sensors, cpu_info>>

\* display_info() has returned: the watchdog counts or forgets; unless it gives
\* up (raise RuntimeError) the sleep time is computed
MainAfterDisplay ==
    /\ At("main_426")
    /\ IF ~ret
       THEN /\ watchdog_counter' = watchdog_counter + 1
            /\ IF WatchdogExhausted(watchdog_counter + 1)
               THEN /\ Raise("watchdog", obs)
                    /\ UNCHANGED sleep_left
               ELSE /\ Goes(SetTop(stack, "main_439"), obs)
                    /\ sleep_left' = SleepTime(tick_age)
       ELSE /\ watchdog_counter' = 0
            /\ Goes(SetTop(stack, "main_439"), obs)
            /\ sleep_left' = SleepTime(tick_age)
    /\ UNCHANGED <<ret, device, config, reset_age, tick_age, handlers>>
    /\ UNCHANGED <<sensors, cpu_info>>

\* time.sleep(sleep_time), one unit at a time; then the next tick
MainSleep ==
    /\ At("main_439")
    /\ IF sleep_left > 0
       THEN /\ sleep_left' = sleep_left - 1
            /\ Advance(1)
            /\ Goes(stack, Aged(obs, 1))
       ELSE /\ Goes(SetTop(stack, "main_422"), obs)
            /\ UNCHANGED <<sleep_left, reset_age, tick_age>>
    /\ UNCHANGED <<ret, device, config, watchdog_counter, handlers>>
    /\ UNCHANGED <<sensors, cpu_info>>

\* An Exception raised by the loop's own statements, not by a device operation
InternalFault ==
    /\ Running /\ stack # <<>>
    /\ Top \in {"main_422", "main_439"}
    /\ Raise("fault", obs)
    /\ UNCHANGED <<ret, device, config, reset_age, tick_age, sleep_left,
                   watchdog_counter, handlers>>
    /\ UNCHANGED <<sensors, cpu_info>>

\* except Exception: logger.exception(...); finally: oled_manager.cleanup()
MainFinally ==
    /\ At("main_444")
    /\ Goes(EnterCleanup(SetTop(stack, "main_450"), device),
            CleanupBegins(obs, device))
    /\ UNCHANGED <<ret, device, config, reset_age, tick_age, sleep_left,
                   watchdog_counter, handlers>>
    /\ UNCHANGED <<sensors, cpu_info>>

\* the finally block ends (line 452 logs an Exception that cleanup() let out)
\* and main() returns: the process ends with status 0
MainReturn ==
    /\ Running /\ stack # <<>>
    /\ Top \in {"main_452", "main_453"}
    /\ stack' = <<>>
    /\ exit_status' = 0
    /\ UNCHANGED <<ret, device, config, reset_age, tick_age, sleep_left,
                   watchdog_counter, handlers, obs>>
    /\ UNCHANGED <<sensors, cpu_info>>

\* The device fails for good: from now on every open, configure and draw
\* operation raises.
DeviceDies ==
    /\ Running /\ ~obs.dead
    /\ obs' = [obs EXCEPT !.dead = TRUE]
    /\ UNCHANGED <<stack, ret, device, config, reset_age, tick_age, sleep_left,
                   watchdog_counter, handlers, exit_status, sensors, cpu_info>>

(* ---- a caller of the OLEDManager's methods ---- *)

Methods == {"init_display", "clear_screen", "cleanup", "check_and_reset", "display_info"}

\* OLEDManager(config)
ApiConstruct ==
    /\ At("api_new")
    /\ device' = None
    /\ reset_age' = 0
    /\ Goes(EnterInit(Append(SetTop(stack, "api_call"), "ctor_204"), None), obs)
    /\ UNCHANGED <<ret, config, tick_age, sleep_left, watchdog_counter, handlers>>
    /\ UNCHANGED <<sensors, cpu_info>>

\* one of the manager's methods is called
ApiCall(m) ==
    /\ At("api_idle")
    /\ LET site == SetTop(stack, "api_call")
           o == [obs EXCEPT !.lastCall = m]
       IN  CASE m = "init_display" ->
                  Goes(EnterInit(site, device), o) /\ UNCHANGED ret
             [] m = "clear_screen" ->
                  Goes(EnterClear(site, device), o) /\ UNCHANGED ret
             [] m = "cleanup" ->
                  Goes(EnterCleanup(site, device), CleanupBegins(o, device))
                  /\ UNCHANGED ret
             [] m = "check_and_reset" ->
                  IF ResetDue(reset_age)
                  THEN Goes(EnterInit(Append(site, "car_283"), device),
                            ResetBegins([o EXCEPT !.lastDue = TRUE]))
                       /\ UNCHANGED ret
                  ELSE Goes(stack, [o EXCEPT !.lastDue = FALSE]) /\ ret' = TRUE
             [] m = "display_info" ->
                  Goes(EnterDisplayInfo(site, device, reset_age),
                       DisplayBegins(o, device, reset_age))
                  /\ UNCHANGED ret
    /\ UNCHANGED <<device, config, reset_age, tick_age, sleep_left,
                   watchdog_counter, handlers>>
    /\ UNCHANGED <<sensors, cpu_info>>

\* time passes between two calls
ApiWait ==
    /\ At("api_idle")
    /\ Advance(1)
    /\ Goes(stack, [Aged(obs, 1) EXCEPT !.lastCall = "wait"])
    /\ UNCHANGED <<ret, device, config, sleep_left, watchdog_counter, handlers>>
    /\ UNCHANGED <<sensors, cpu_info>>

(* ---- get_cpu_info ---- *)

\* The raw integers a sensor file may hold.
RawValues == {0, 999, 45000, 45500, 1800000, -5500}

\* A sensor file: absent; present but not readable as a number (open(), read()
\* or float() raises); or holding the text of an integer.
Missing == [kind |-> "missing", raw |-> 0]
Unreadable == [kind |-> "unreadable", raw |-> 0]
Holds(raw) == [kind |-> "value", raw |-> raw]
SensorFiles == {Missing, Unreadable} \cup {Holds(r) : r \in RawValues}

\* float(text) / 1000.0, kept as whole units and thousandths
Scaled(raw) == [whole |-> raw \div 1000, milli |-> raw % 1000]

\* the literal 0.0
Zero == [whole |-> 0, milli |-> 0]

\* One reading inside the try block: the initial 0.0 when the path does not
\* exist, the scaled value when the file is read, an Exception otherwise.
ReadSensor(f) ==
    CASE f.kind = "missing" -> [raised |-> FALSE, value |-> Zero]
      [] f.kind = "unreadable" -> [raised |-> TRUE, value |-> Zero]
      [] f.kind = "value" -> [raised |-> FALSE, value |-> Scaled(f.raw)]

\* get_cpu_info(config): both readings in one try block; except Exception
\* returns 0.0, 0.0
get_cpu_info(s) ==
    LET temp == ReadSensor(s.temp)
        freq == ReadSensor(s.freq)
    IN  IF temp.raised \/ freq.raised
        THEN [raised |-> FALSE, temp |-> Zero, freq |-> Zero]
        ELSE [raised |-> FALSE, temp |-> temp.value, freq |-> freq.value]

NotCalled == [called |-> FALSE, raised |-> FALSE, temp |-> Zero, freq |-> Zero]

\* cpu_temp, cpu_freq = get_cpu_info(self.config)
CpuCall ==
    /\ At("cpu_343")
    /\ LET r == get_cpu_info(sensors)
       IN  cpu_info' = [called |-> TRUE, raised |-> r.raised,
                        temp |-> r.temp, freq |-> r.freq]
    /\ UNCHANGED <<stack, ret, device, config, reset_age, tick_age, sleep_left,
                   watchdog_counter, handlers, exit_status, obs, sensors>>

\* the sensor files change between two calls
SensorsChange ==
    /\ At("cpu_343")
    /\ sensors' \in [temp : SensorFiles, freq : SensorFiles]
    /\ sensors' # sensors
    /\ cpu_info' = NotCalled
    /\ UNCHANGED <<stack, ret, device, config, reset_age, tick_age, sleep_left,
                   watchdog_counter, handlers, exit_status, obs>>

(* ---- the programs ---- *)

Init ==
    /\ stack = <<"main_388">>
    /\ ret = FALSE
    /\ device = None
    /\ config \in Configs
    /\ reset_age = 0
    /\ tick_age = 0
    /\ sleep_left = 0
    /\ watchdog_counter = 0
    /\ handlers = {}
    /\ exit_status = -1
    /\ obs = Observed
    /\ sensors = [temp |-> Holds(45000), freq |-> Holds(1800000)]
    /\ cpu_info = NotCalled

Manager ==
    \/ CheckReturn
    \/ DisplayAfterCheck
    \/ DisplayAfterInit
    \/ DisplayDraw
    \/ DisplayRecover
    \/ DisplayFail
    \/ InitClose
    \/ InitSettle
    \/ InitOpen
    \/ InitConstruct
    \/ InitCommand
    \/ InitFail
    \/ ClearHide
    \/ ClearClear
    \/ CleanupClose
    \/ CleanupRelease
    \/ CtorInstallSigint
    \/ CtorInstallSigterm

Next ==
    \/ MainCheckInterface
    \/ MainConstruct
    \/ MainLoadFonts
    \/ MainTick
    \/ MainAfterDisplay
    \/ MainSleep
    \/ InternalFault
    \/ MainFinally
    \/ MainReturn
    \/ Manager
    \/ SigExit
    \/ \E sig \in {"SIGINT", "SIGTERM"} : Signal(sig)

Spec == Init /\ [][Next]_vars

InitAPI ==
    /\ stack = <<"api_new">>
    /\ ret = FALSE
    /\ device = None
    /\ config \in Configs
    /\ reset_age = 0
    /\ tick_age = 0
    /\ sleep_left = 0
    /\ watchdog_counter = 0
    /\ handlers = {}
    /\ exit_status = -1
    /\ obs = Observed
    /\ sensors = [temp |-> Holds(45000), freq |-> Holds(1800000)]
    /\ cpu_info = NotCalled

NextAPI ==
    \/ ApiConstruct
    \/ \E m \in Methods : ApiCall(m)
    \/ ApiWait
    \/ Manager

SpecAPI == InitAPI /\ [][NextAPI]_vars

\* main() with no signal and no fault of its own, and a device that may fail
\* for good at any moment. The interpreter keeps executing the program.
Program ==
    \/ MainCheckInterface
    \/ MainConstruct
    \/ MainLoadFonts
    \/ MainTick
    \/ MainAfterDisplay
    \/ MainSleep
    \/ MainFinally
    \/ MainReturn
    \/ Manager

NextDead ==
    \/ Program
    \/ DeviceDies

SpecDead == Init /\ [][NextDead]_vars /\ WF_vars(Program)

InitCPU ==
    /\ stack = <<"cpu_343">>
    /\ ret = FALSE
    /\ device = None
    /\ config \in Configs
    /\ reset_age = 0
    /\ tick_age = 0
    /\ sleep_left = 0
    /\ watchdog_counter = 0
    /\ handlers = {}
    /\ exit_status = -1
    /\ obs = Observed
    /\ sensors \in [temp : SensorFiles, freq : SensorFiles]
    /\ cpu_info = NotCalled

NextCPU ==
    \/ CpuCall
    \/ SensorsChange

SpecCPU == InitCPU /\ [][NextCPU]_vars

(* ---- the claims ---- *)

MainLeftLoop == stack = <<>> \/ stack[1] \in {"main_444", "main_450", "main_452", "main_453"}
Constructed == handlers = {"SIGINT", "SIGTERM"}
Terminated == ~Running /\ Constructed /\ obs.why \in {"watchdog", "signal", "fault"}
SigFrames == Cardinality({i \in 1..Len(stack) : stack[i] \in {"sig_259", "sig_262"}})
CleanupReturned == stack # <<>> /\ Top \in {"sig_262", "main_453"}
InitReturned == stack # <<>> /\ Top \in {"ctor_207", "car_283r", "di_290r", "di_318"}

\* C1: the loop ends through the watchdog exactly when display_info has
\* returned False on 10 consecutive ticks: with fewer failures in a row the
\* watchdog has not ended it, and once the 10th failure in a row is returned main
\* handles it by leaving the loop, never reaching the sleep or another tick.
C1_WatchdogAtTenthFailure ==
    /\ obs.why = "watchdog" => obs.failRun = max_watchdog_errors
    /\ obs.failRun >= max_watchdog_errors =>
         /\ obs.failRun = max_watchdog_errors
         /\ stack = <<>> \/ stack[1] \in {"main_426", "main_444", "main_450",
                                         "main_452", "main_453"}
         /\ MainLeftLoop => obs.why = "watchdog"

C1_Witness == obs.why = "watchdog" /\ stack = <<>> /\ exit_status = 0

\* C2 (as claimed): whatever made the process terminate (watchdog, signal,
\* fault in the loop), cleanup() has been called exactly once when it ends.
C2_CleanupExactlyOnce == Terminated => obs.cleanupCalls = 1

\* C3: on every way the process ends after the manager was constructed
\* (watchdog, signal, fault in the loop) cleanup() has run and no handle is
\* installed any more; and cleanup() gives up a handle only after it has
\* attempted the clear and the close on it.
C3_CleanupOnEveryExit ==
    /\ Terminated => obs.cleanupCalls >= 1 /\ ~device.present
    /\ (stack # <<>> /\ Top = "cleanup_276") =>
         obs.liveAtCleanup /\ obs.hides >= 1 /\ obs.closes >= 1

C3_Witness ==
    /\ ~Running /\ obs.why = "fault"
    /\ obs.liveAtCleanup /\ obs.hides = 1 /\ obs.closes = 1 /\ ~device.present

\* C4 (as claimed): the exit status is 0 after a termination signal that
\* signal_handler handled, and non-zero after watchdog exhaustion or when no
\* network interface exists.
C4_ExitStatus ==
    ~Running =>
      /\ (obs.why = "signal" /\ Constructed) => exit_status = 0
      /\ obs.why \in {"watchdog", "startup"} => exit_status # 0

\* C5: when cleanup() returns, no handle is installed; it has attempted the
\* clear once and the close once if a handle was installed when it began, and
\* no device operation at all if none was (as in a second call); and no error
\* of it reaches the except clause of main's finally block.
C5_CleanupIdempotent ==
    /\ CleanupReturned =>
         /\ ~device.present
         /\ obs.hides = (IF obs.liveAtCleanup THEN 1 ELSE 0)
         /\ obs.closes = (IF obs.liveAtCleanup THEN 1 ELSE 0)
    /\ stack # <<>> => Top # "main_452"

C5_Witness ==
    /\ stack # <<>> /\ stack[1] = "main_453" /\ Top = "sig_262"
    /\ obs.cleanupCalls = 2
    /\ ~obs.liveAtCleanup /\ obs.hides = 0 /\ obs.closes = 0 /\ ~device.present

\* C6 (as claimed): after a first signal that arrived during main's pending
\* sleep, main stays where it was, with the rest of its sleep pending and no
\* further tick, and the process ends with status 0, no handle installed and
\* cleanup() called exactly once.
C6_SignalInSleep ==
    obs.sigInSleep =>
      /\ stack # <<>> /\ stack[1] = "main_439" /\ sleep_left > 0
      /\ obs.cleanupCalls >= 1
      /\ ~Running =>
           /\ exit_status = 0
           /\ ~device.present
           /\ obs.cleanupCalls = 1

\* C7 (as claimed): check_and_reset() never starts a reset within
\* reset_interval of the previous reset it started.
C7_OneResetPerInterval == obs.earlyReset = "no"

\* C7 (amended): check_and_reset() never starts a reset within reset_interval
\* of a previous reset whose init_display() succeeded; and a call made while
\* the time since last_reset_time does not exceed reset_interval returns True
\* and changes neither the device nor last_reset_time nor the frames.
C7_OneResetPerSuccessfulReset ==
    /\ [](obs.earlyReset # "succeeded")
    /\ [][(At("api_idle") /\ obs'.lastCall = "check_and_reset"
           /\ ~(reset_age > ResetInterval))
          => (ret' = TRUE /\ device' = device /\ reset_age' = reset_age
              /\ stack' = stack)]_vars

C7_Witness ==
    /\ At("api_idle") /\ obs.lastCall = "check_and_reset" /\ ~obs.lastDue
    /\ obs.lastResetOk /\ obs.sinceReset <= ResetInterval
    /\ ret = TRUE /\ device.present

\* C8: when init_display() returns False no handle is installed, and when it
\* returns True the installed handle is open and has received exactly the four
\* configuration commands, in order.
C8_NoHalfConfiguredHandle ==
    InitReturned =>
      IF ret
      THEN device.present /\ device.open /\ device.cmds = ConfigCommands(config)
      ELSE device = None

C8_Witness == stack # <<>> /\ Top = "di_318" /\ ~ret /\ device = None

\* C9: no failure of a device operation leaves the manager's methods as an
\* Exception: the process never leaves its running state because of one, no
\* Exception passes through a signal handler's frame or ends the process, and
\* main leaves its loop only through the watchdog or a fault of its own.
C9_DeviceErrorsAbsorbed ==
    /\ obs.why # "device"
    /\ Constructed => SigFrames = obs.sigCount
    /\ (~Running /\ stack = <<>> /\ exit_status # 0) => obs.why = "startup"
    /\ (stack # <<>> /\ MainLeftLoop) => obs.why \in {"watchdog", "fault"}

C9_Witness ==
    /\ Running /\ stack # <<>> /\ Top = "main_439"
    /\ obs.failRun >= 1 /\ obs.why = "none" /\ ~device.present

\* C10: when display_info() returns False to main, it has called
\* init_display() at least once after it saw the failure.
C10_RecoveryBeforeFailure ==
    (stack # <<>> /\ Top = "main_426" /\ ~ret) => obs.diInits >= 1

C10_Witness ==
    /\ stack # <<>> /\ Top = "main_426" /\ ~ret
    /\ obs.diInits = 1 /\ device.present

\* C11 (as claimed): no handle is open other than the one self.device refers
\* to: a handle that was replaced by a new one or dropped by self.device = None
\* has been closed.
C11_AtMostOneLiveHandle == ~obs.orphaned

\* C12 (as claimed): get_cpu_info does not raise; each reading is 0.0 when its
\* path does not exist and raw/1000 when its file holds an integer (45000
\* gives 45.0, 1800000 gives 1800), whatever the state of the other file.
C12_CpuInfoIndependent ==
    cpu_info.called =>
      /\ ~cpu_info.raised
      /\ sensors.temp.kind = "missing" => cpu_info.temp = Zero
      /\ sensors.freq.kind = "missing" => cpu_info.freq = Zero
      /\ sensors.temp.kind = "value" =>
           /\ cpu_info.temp.whole * 1000 + cpu_info.temp.milli = sensors.temp.raw
           /\ cpu_info.temp.milli \in 0..999
           /\ sensors.temp.raw = 45000 => cpu_info.temp = [whole |-> 45, milli |-> 0]
      /\ sensors.freq.kind = "value" =>
           /\ cpu_info.freq.whole * 1000 + cpu_info.freq.milli = sensors.freq.raw
           /\ cpu_info.freq.milli \in 0..999
           /\ sensors.freq.raw = 1800000 => cpu_info.freq = [whole |-> 1800, milli |-> 0]

\* C13: watchdog_counter is the number of main's display_info calls that
\* returned False in a row (as the observer counts them when they return; at
\* line 426 the latest result is not yet counted), it stays within 0..10, and
\* it changes only at line 426: by one up on a False result, to 0 on a True one.
C13_WatchdogCounterExact ==
    /\ [](/\ watchdog_counter \in 0..max_watchdog_errors
          /\ obs.failRun = IF stack # <<>> /\ stack[1] = "main_426"
                           THEN (IF ret THEN 0 ELSE watchdog_counter + 1)
                           ELSE watchdog_counter)
    /\ [][watchdog_counter' # watchdog_counter =>
            /\ At("main_426")
            /\ watchdog_counter' = IF ret THEN 0 ELSE watchdog_counter + 1]_vars

C13_Witness ==
    /\ At("main_426") /\ ret
    /\ watchdog_counter = max_watchdog_errors - 1 /\ obs.failRun = 0

\* C14: whenever init_display() has returned True, last_reset_time is the
\* current time (reset_age = 0); and reset_age changes in two ways only: it
\* becomes 0 in the step that ends a successful init_display() (line 236), and
\* it grows while time passes (settle delay, drawing, sleep, a caller waiting),
\* which is last_reset_time staying as it was. So no other step of any method
\* writes last_reset_time, and it never decreases.
C14_LastResetTimeFrame ==
    /\ []((InitReturned /\ ret) => reset_age = 0)
    /\ [][reset_age' # reset_age =>
            \/ Top = "init_234" /\ ret' /\ reset_age' = 0
            \/ /\ Top \in {"init_220", "di_294", "main_439"}
                  \/ (Top = "api_idle" /\ obs'.lastCall = "wait")
               /\ reset_age' > reset_age]_vars

C14_Witness ==
    /\ At("di_318") /\ ret /\ reset_age = 0 /\ tick_age > 0
    /\ obs.lastCall = "display_info"

\* C15: the drawing of display_info() is started only with an open handle
\* installed; when the init_display() of line 290 returns (the handle was
\* absent at entry, or check_and_reset() failed) it is the only one the call
\* has attempted and nothing was drawn; if it returned False the call returns
\* False at once, without drawing; and a call that returned False to main
\* without drawing has attempted exactly one init_display().
C15_DrawOnlyOnLiveHandle ==
    /\ [](At("di_294") => device.present /\ device.open)
    /\ [](At("di_290r") => obs.diInits = 1 /\ ~obs.drew)
    /\ []((At("main_426") /\ ~ret /\ ~obs.drew) =>
            obs.diInits = 1 /\ ~device.present)
    /\ [][(At("di_290r") /\ ~ret /\ obs'.sigCount = obs.sigCount) =>
            (stack' = Ret(stack) /\ ~ret' /\ ~obs'.drew /\ device' = device)]_vars

C15_Witness ==
    /\ At("main_426") /\ ~ret /\ ~obs.drew /\ obs.diInits = 1
    /\ watchdog_counter = 0 /\ reset_age > ResetInterval /\ ~device.present

\* C16: with no signal, once the device has failed for good the process
\* eventually ends; main starts at most 10 ticks after that moment; a process
\* that ended after its startup check ended through the watchdog at count 10,
\* with cleanup() called once and no handle installed; and once main has left
\* its loop it never is in it again.
C16_PermanentFailureTerminates ==
    /\ obs.dead ~> ~Running
    /\ [](obs.deadTicks <= max_watchdog_errors)
    /\ []((~Running /\ obs.why # "startup") =>
            /\ obs.why = "watchdog" /\ watchdog_counter = max_watchdog_errors
            /\ obs.cleanupCalls = 1 /\ ~device.present)
    /\ [][MainLeftLoop => MainLeftLoop']_vars

C16_Witness ==
    /\ obs.dead /\ ~Running /\ obs.why = "watchdog"
    /\ obs.deadTicks = max_watchdog_errors /\ obs.cleanupCalls = 1

\* The lines main passes from one to the next.
MainFlow ==
    { <<"main_388", "main_401">>, <<"main_401", "main_404">>,
      <<"main_404", "main_422">>, <<"main_422", "main_425">>,
      <<"main_425", "main_426">>, <<"main_426", "main_439">>,
      <<"main_439", "main_422">>, <<"main_422", "main_444">>,
      <<"main_426", "main_444">>, <<"main_439", "main_444">>,
      <<"main_444", "main_450">>, <<"main_450", "main_452">>,
      <<"main_450", "main_453">> }

\* C17: the pending sleep is never negative and never longer than
\* refresh_interval; main goes from the start of a tick to one display_info
\* call, to the watchdog accounting, to the sleep and from there to the start
\* of the next tick only; the sleep it then begins is refresh_interval less the
\* time the tick took, and 0 when the tick took that long or longer; the sleep
\* lasts as long as computed, and the next tick starts only when it is over,
\* timed from its own start.
C17_SleepComputation ==
    /\ [](sleep_left \in 0..RefreshInterval)
    /\ [][(stack # <<>> /\ stack' # <<>> /\ stack'[1] # stack[1]) =>
            <<stack[1], stack'[1]>> \in MainFlow]_vars
    /\ [][(At("main_426") /\ stack' # <<>> /\ stack'[1] = "main_439") =>
            sleep_left' = IF tick_age >= RefreshInterval THEN 0
                          ELSE RefreshInterval - tick_age]_vars
    /\ [][(At("main_439") /\ sleep_left' # sleep_left) =>
            (sleep_left' = sleep_left - 1 /\ tick_age' >= tick_age
             /\ stack' = stack)]_vars
    /\ [][(At("main_439") /\ stack' # <<>> /\ stack'[1] = "main_422") =>
            sleep_left = 0]_vars
    /\ [][(At("main_422") /\ stack' # <<>> /\ stack'[1] = "main_425") =>
            tick_age' = 0]_vars

C17_Witness ==
    /\ At("main_439") /\ tick_age > RefreshInterval /\ sleep_left = 0
    /\ watchdog_counter >= 1

\* C18: when a display_info() call of main returns and no device operation
\* raised during it, it returns True with an open, fully configured handle
\* installed, whatever the manager's state was when it began; and main's next
\* step sets watchdog_counter to 0 and goes to the sleep.
C18_OneHealthyTickRecovers ==
    /\ []((At("main_426") /\ ~obs.opFailed) =>
            /\ ret
            /\ device.present /\ device.open
            /\ device.cmds = ConfigCommands(config))
    /\ [][(At("main_426") /\ ~obs.opFailed /\ obs'.sigCount = obs.sigCount) =>
            (watchdog_counter' = 0 /\ stack' = <<"main_439">>)]_vars

C18_Witness ==
    /\ At("main_426") /\ ~obs.opFailed /\ ret /\ obs.diInits = 1 /\ obs.drew
    /\ watchdog_counter = max_watchdog_errors - 1 /\ device.present

\* C19: display_info() enters its drawing block at most once per call; a
\* drawing step either returns True or goes to the except clause, which starts
\* the recovery init_display(); when that returns, display_info() returns False
\* whatever the recovery returned, leaving the handle as the recovery left it;
\* a False returned to main with a handle installed is such a failed drawing,
\* and main counts it as it counts any failure.
C19_DrawFailureAlwaysCounted ==
    /\ [](At("di_294") => ~obs.drew)
    /\ []((stack # <<>> /\ Top \in {"di_315", "di_318"}) => obs.drew)
    /\ []((At("main_426") /\ ~ret /\ device.present) => obs.drew)
    /\ [][(At("di_294") /\ obs'.sigCount = obs.sigCount) =>
            \/ stack' = Ret(stack) /\ ret'
            \/ stack' = SetTop(stack, "di_315")]_vars
    /\ [][(At("di_318") /\ obs'.sigCount = obs.sigCount) =>
            /\ stack' = Ret(stack) /\ ~ret' /\ device' = device
            /\ ByMain => obs'.failRun = Min(obs.failRun + 1, max_watchdog_errors + 1)]_vars

C19_Witness ==
    /\ stack = <<"main_444">> /\ obs.why = "watchdog"
    /\ watchdog_counter = max_watchdog_errors
    /\ obs.drew /\ obs.diInits = 1
    /\ device.present /\ device.open /\ device.cmds = ConfigCommands(config)

\* C20 (as claimed): whenever a handle is installed, signal_handler is
\* installed for SIGINT and SIGTERM; and no process that a signal ended through
\* its default action has an open handle installed.
C20_HandlersBeforeHandle ==
    /\ device.present => handlers = {"SIGINT", "SIGTERM"}
    /\ (~Running /\ obs.why = "killed") => ~(device.present /\ device.open)

====
